---- MODULE Spec2Model ----
(***************************************************************************)
(* Bayesian single change-point pipeline (KAIM_Week11).                    *)
(*                                                                         *)
(*   src/src/change_point_model.py   SingleChangePointModel                *)
(*   src/src/event_analyzer.py       EventImpactAnalyzer                   *)
(*   src/src/time_series_analysis.py TimeSeriesAnalyzer                    *)
(*                                                                         *)
(* Numbers.  Python floats are modelled as exact rationals on fixed grids: *)
(*   tau            in units of 1/TauScale of an observation index;        *)
(*   mu, sigma      in units of 0.005 (so 0.01 is 2 units, 0.005 is 1);    *)
(*   r_hat          in hundredths (1.05 is 105);                           *)
(*   a rational     is a record [num, den] with den > 0.                   *)
(* Python's None is the empty tuple <<>>, a present value x is <<x>>.      *)
(* Calendar dates are day numbers; times of day are half-days (see the     *)
(* event analyzer below).                                                  *)
(***************************************************************************)
EXTENDS Integers, Sequences, FiniteSets, TLC

VARIABLES
    data,           \* SingleChangePointModel.data: the observed log returns
    dates,          \* SingleChangePointModel.dates: day number per observation
    model,          \* SingleChangePointModel.model: <<>> or <<the built model>>
    trace,          \* SingleChangePointModel.trace: <<>> or <<posterior draws>>
    tau_posterior,  \* SingleChangePointModel.tau_posterior: <<>> or <<tau samples>>
    sampler_memo,   \* what the external sampler returned for each input so far
    run_log,        \* one record per call of pm.sample, in call order
    events,         \* EventImpactAnalyzer.events: the catalogue rows, in order
    df,             \* TimeSeriesAnalyzer.df: rows [Date, Price], in order
    log_returns,    \* TimeSeriesAnalyzer.log_returns: <<>> or <<the series>>
    ret,            \* the last call: operation, arguments, exception raised, value
    results         \* history: what the calls since the last sample() left in ret

cpVars == <<data, dates, model, trace, tau_posterior, sampler_memo, run_log>>
evVars == <<events>>
tsVars == <<df, log_returns>>
vars == <<cpVars, evVars, tsVars, ret, results>>

(***************************************************************************)
(* Bounds of the model.                                                    *)
(***************************************************************************)
TauScale == 2      \* tau grid: 1/TauScale of an index step
MaxExtra == 2      \* longest series: 2*BreakMargin + MaxExtra observations
MaxDraws == 2      \* draws per chain requested from the sampler
MaxRuns  == 2      \* calls of sample() on one object

(***************************************************************************)
(* Program constants.                                                      *)
(***************************************************************************)
BreakMargin   == 30     \* pm.Uniform('tau_raw', lower=30, upper=n_obs-30)
RandomSeed    == 42     \* random_seed=42
RHatThreshold == 105    \* r_hat_max < 1.05, in hundredths
EssThreshold  == 200    \* ess_min > 200

None == <<>>
Some(x) == <<x>>
IsNone(o) == o = <<>>
Get(o) == o[1]

Params == {"tau", "mu1", "mu2", "sigma1", "sigma2"}

(***************************************************************************)
(* Arithmetic of numpy on the grids.                                       *)
(***************************************************************************)
Abs(x) == IF x < 0 THEN -x ELSE x

\* int(x) for the float num/den: truncation toward zero.
PyInt(num, den) == IF num >= 0 THEN num \div den ELSE -((-num) \div den)

\* np.round(x) for the float num/den: round half to even.
NpRound(num, den) ==
    LET q == num \div den
        r == num - q * den
    IN  IF 2 * r < den THEN q
        ELSE IF 2 * r > den THEN q + 1
        ELSE IF q % 2 = 0 THEN q ELSE q + 1

Sorted(s) == SortSeq(s, LAMBDA a, b : a < b)

\* np.median(s): the middle value, or the mean of the two middle values.
NpMedian(s) ==
    LET t == Sorted(s)
        n == Len(s)
    IN  IF n % 2 = 1 THEN [num |-> 2 * t[(n + 1) \div 2], den |-> 2]
        ELSE [num |-> t[n \div 2] + t[n \div 2 + 1], den |-> 2]

\* np.quantile(s, qn/qd), method 'linear': position h = q*(n-1) in the sorted
\* samples, linear interpolation between the neighbours of h.
NpQuantile(s, qn, qd) ==
    LET t  == Sorted(s)
        n  == Len(s)
        h  == qn * (n - 1)              \* position, in units of 1/qd
        lo == h \div qd
        g  == h - lo * qd               \* fractional part, in units of 1/qd
        hi == IF lo + 2 <= n THEN lo + 2 ELSE n
    IN  [num |-> qd * t[lo + 1] + g * (t[hi] - t[lo + 1]), den |-> qd]

(***************************************************************************)
(* SingleChangePointModel.__init__                                         *)
(***************************************************************************)
SeriesLengths ==
    { 2 * BreakMargin - 40, 2 * BreakMargin - 20, 2 * BreakMargin,
      2 * BreakMargin + MaxExtra }

\* A trading calendar: five days on, two days off.
Calendar(n) == [i \in 1..n |-> i + 2 * ((i - 1) \div 5)]

\* Log returns in units of 0.005: a flat regime, then a shifted one.
Series(n) == [i \in 1..n |-> IF 2 * i <= n THEN 0 ELSE 4]

\* What a call left behind: raised = "" when it returned.
Return(op, args, raised, value) ==
    [op |-> op, args |-> args, raised |-> raised, value |-> value]

NoCall == Return("__init__", <<>>, "", None)

Init ==
    /\ \E n \in SeriesLengths : data = Series(n) /\ dates = Calendar(n)
    /\ model = None
    /\ trace = None
    /\ tau_posterior = None
    /\ sampler_memo = {}
    /\ run_log = <<>>
    /\ events = <<>>
    /\ df = <<>>
    /\ log_returns = None
    /\ ret = NoCall
    /\ results = {}

(***************************************************************************)
(* build_model                                                             *)
(***************************************************************************)
BuiltModel ==
    [ n_obs    |-> Len(data),
      lower    |-> BreakMargin,
      upper    |-> Len(data) - BreakMargin,
      observed |-> data ]

build_model ==
    /\ model' = Some(BuiltModel)
    /\ ret' = Return("build_model", <<>>, "", None)
    /\ UNCHANGED <<data, dates, trace, tau_posterior, sampler_memo, run_log>>
    /\ UNCHANGED <<evVars, tsVars>>

(***************************************************************************)
(* The external sampler, pm.sample.  It is a function of the model, the    *)
(* configuration and the seed (spec section 6: deterministic for a fixed   *)
(* seed); sampler_memo records its value for each input it has been given, *)
(* and an input it has not seen yet may produce any outcome below.         *)
(* A posterior draw of tau lies in the support of its prior,               *)
(* Uniform(lower, upper).  When upper < lower the library's behaviour is   *)
(* not defined by this repository: the call may raise, or return draws     *)
(* between the two bounds.                                                 *)
(***************************************************************************)
Configs ==
    { [draws |-> d, tune |-> d, chains |-> 2, target_accept |-> 85] :
        d \in {1, MaxDraws} }

Min2(a, b) == IF a <= b THEN a ELSE b
Max2(a, b) == IF a >= b THEN a ELSE b

\* Grid values of tau near either end of the prior's support.
TauValues(m) ==
    LET lo == TauScale * Min2(m.lower, m.upper)
        hi == TauScale * Max2(m.lower, m.upper)
    IN  { t \in lo..hi : t - lo <= TauScale + 1 \/ hi - t <= TauScale + 1 }

\* n samples alternating between a and b.
Pattern(n, a, b) == [i \in 1..n |-> IF i % 2 = 1 THEN a ELSE b]

TauPatterns(m) ==
    { <<a, b>> \in TauValues(m) \X TauValues(m) : b = a \/ b = a + 1 }

\* Regime parameters <<mu1, mu2, sigma1, sigma2>>, each a two-value pattern.
ParamPatterns ==
    { << <<0, 0>>, <<4, 4>>, <<2, 2>>, <<2, 2>> >>,
      << <<0, 1>>, <<0, 0>>, <<2, 2>>, <<4, 3>> >> }

\* az.summary of the draws: r_hat (hundredths) and ess_bulk per parameter.
Summaries ==
    { [ r_hat    |-> [p \in Params |-> IF p = wr THEN r ELSE RHatThreshold - 5],
        ess_bulk |-> [p \in Params |-> IF p = we THEN e ELSE 2 * EssThreshold] ] :
        wr \in {"tau", "sigma2"}, r \in {RHatThreshold - 1, RHatThreshold},
        we \in {"mu1"}, e \in {EssThreshold, EssThreshold + 1} }

InferenceData(cfg, tp, pp, summ) ==
    LET n == cfg.chains * cfg.draws
    IN  [ posterior |->
            [ tau    |-> Pattern(n, tp[1], tp[2]),
              mu1    |-> Pattern(n, pp[1][1], pp[1][2]),
              mu2    |-> Pattern(n, pp[2][1], pp[2][2]),
              sigma1 |-> Pattern(n, pp[3][1], pp[3][2]),
              sigma2 |-> Pattern(n, pp[4][1], pp[4][2]) ],
          summary |-> summ ]

BaseTau(m) == <<TauScale * Min2(m.lower, m.upper), TauScale * Min2(m.lower, m.upper)>>
BaseParams == << <<0, 0>>, <<4, 4>>, <<2, 2>>, <<2, 2>> >>
BaseSummary ==
    [ r_hat    |-> [p \in Params |-> RHatThreshold - 5],
      ess_bulk |-> [p \in Params |-> 2 * EssThreshold] ]

\* The draws the sampler may return: one of the three factors varies.
PosteriorDraws(m, cfg) ==
    { InferenceData(cfg, tp, BaseParams, BaseSummary) : tp \in TauPatterns(m) }
    \cup { InferenceData(cfg, BaseTau(m), pp, BaseSummary) : pp \in ParamPatterns }
    \cup { InferenceData(cfg, BaseTau(m), BaseParams, s) : s \in Summaries }

SamplerOutcomes(key) ==
    { [raised |-> "SamplingError", value |-> None] }
    \cup { [raised |-> "", value |-> Some(d)] : d \in PosteriorDraws(key.model, key.config) }

\* pm.sample(...): the memoised external call.
PmSample(key) ==
    LET known == { e \in sampler_memo : e.key = key }
    IN  IF known # {} THEN { e.out : e \in known } ELSE SamplerOutcomes(key)

(***************************************************************************)
(* sample                                                                  *)
(***************************************************************************)
SeedFromRunCount == RandomSeed + Len(run_log)

SeedArg == RandomSeed

sample(cfg) ==
    LET m   == IF IsNone(model) THEN BuiltModel ELSE Get(model)
        key == [model |-> m, config |-> cfg, random_seed |-> SeedArg]
    IN  /\ Len(run_log) < MaxRuns
        /\ model' = Some(m)
        /\ \E out \in PmSample(key) :
            /\ sampler_memo' = sampler_memo \cup {[key |-> key, out |-> out]}
            /\ run_log' = Append(run_log, [key |-> key, out |-> out])
            /\ trace' = IF out.raised = "" THEN out.value ELSE trace
            /\ ret' = Return("sample", <<cfg>>, out.raised, out.value)
        /\ UNCHANGED <<data, dates, tau_posterior, evVars, tsVars>>

(***************************************************************************)
(* diagnose_convergence                                                    *)
(***************************************************************************)
SetMax(S) == CHOOSE x \in S : \A y \in S : y <= x
SetMin(S) == CHOOSE x \in S : \A y \in S : x <= y

ConvergedLoose(r_hat_max, ess_min) ==
    (r_hat_max <= RHatThreshold) /\ (ess_min >= EssThreshold)

Converged(r_hat_max, ess_min) ==
    (r_hat_max < RHatThreshold) /\ (ess_min > EssThreshold)

ConvergenceReport(t) ==
    LET summary   == t.summary
        r_hat_max == SetMax({ summary.r_hat[p] : p \in Params })
        ess_min   == SetMin({ summary.ess_bulk[p] : p \in Params })
    IN  [ r_hat_max |-> r_hat_max,
          ess_min   |-> ess_min,
          converged |-> Converged(r_hat_max, ess_min),
          summary   |-> summary ]

\* az.summary(None) raises inside the library when nothing was sampled yet.
diagnose_convergence ==
    /\ ret' = IF IsNone(trace)
              THEN Return("diagnose_convergence", <<>>, "Exception", None)
              ELSE Return("diagnose_convergence", <<>>, "",
                          Some(ConvergenceReport(Get(trace))))
    /\ UNCHANGED <<cpVars, evVars, tsVars>>

(***************************************************************************)
(* extract_change_point_date                                               *)
(***************************************************************************)
\* credible_interval as a fraction <<numerator, denominator>>.
CredibleMasses == { <<19, 20>>, <<1, 2>> }

\* self.dates[i]: Python indexing, a negative i counts from the end.
InIndexRange(i) == -Len(dates) <= i /\ i < Len(dates)
DateAt(i) == IF i >= 0 THEN dates[i + 1] ELSE dates[Len(dates) + i + 1]

\* tau_mode = int(np.round(np.median(tau_samples)))
TauMode(tau_samples) ==
    LET med == NpMedian(tau_samples)
    IN  NpRound(med.num, med.den * TauScale)

\* lower_idx = int(np.quantile(tau_samples, (1 - credible_interval) / 2))
LowerIdx(tau_samples, ci) ==
    LET q == NpQuantile(tau_samples, ci[2] - ci[1], 2 * ci[2])
    IN  PyInt(q.num, q.den * TauScale)

\* upper_idx = int(np.quantile(tau_samples, 1 - (1 - credible_interval) / 2))
UpperIdx(tau_samples, ci) ==
    LET q == NpQuantile(tau_samples, ci[2] + ci[1], 2 * ci[2])
    IN  PyInt(q.num, q.den * TauScale)

\* The extraction with tau_samples a view of the trace, sorted in place.
extract_sorting_in_place(ci) ==
    IF IsNone(trace)
    THEN /\ ret' = Return("extract_change_point_date", <<ci>>, "AttributeError", None)
         /\ UNCHANGED <<cpVars, evVars, tsVars>>
    ELSE LET tau_samples == Sorted(Get(trace).posterior.tau)
             tau_mode    == TauMode(tau_samples)
             lower_idx   == LowerIdx(tau_samples, ci)
             upper_idx   == UpperIdx(tau_samples, ci)
         IN  /\ trace' = Some([Get(trace) EXCEPT !.posterior.tau = tau_samples])
             /\ IF InIndexRange(tau_mode) /\ InIndexRange(lower_idx) /\ InIndexRange(upper_idx)
                THEN /\ tau_posterior' = Some(tau_samples)
                     /\ ret' = Return("extract_change_point_date", <<ci>>, "",
                                 Some([ mode_index |-> tau_mode,
                                        mode_date  |-> DateAt(tau_mode),
                                        credible_interval |->
                                            <<DateAt(lower_idx), DateAt(upper_idx)>>,
                                        samples |-> tau_samples ]))
                ELSE /\ ret' = Return("extract_change_point_date", <<ci>>, "IndexError", None)
                     /\ UNCHANGED tau_posterior
             /\ UNCHANGED <<data, dates, model, sampler_memo, run_log>>
             /\ UNCHANGED <<evVars, tsVars>>

extract_change_point_date(ci) ==
    IF IsNone(trace)
    THEN /\ ret' = Return("extract_change_point_date", <<ci>>, "AttributeError", None)
         /\ UNCHANGED <<cpVars, evVars, tsVars>>
    ELSE LET tau_samples == Get(trace).posterior.tau
             tau_mode    == TauMode(tau_samples)
             lower_idx   == LowerIdx(tau_samples, ci)
             upper_idx   == UpperIdx(tau_samples, ci)
         IN  IF InIndexRange(tau_mode) /\ InIndexRange(lower_idx) /\ InIndexRange(upper_idx)
             THEN /\ tau_posterior' = Some(tau_samples)
                  /\ ret' = Return("extract_change_point_date", <<ci>>, "",
                              Some([ mode_index |-> tau_mode,
                                     mode_date  |-> DateAt(tau_mode),
                                     credible_interval |->
                                         <<DateAt(lower_idx), DateAt(upper_idx)>>,
                                     samples |-> tau_samples ]))
                  /\ UNCHANGED <<data, dates, model, trace, sampler_memo, run_log>>
                  /\ UNCHANGED <<evVars, tsVars>>
             ELSE /\ ret' = Return("extract_change_point_date", <<ci>>, "IndexError", None)
                  /\ UNCHANGED <<cpVars, evVars, tsVars>>

(***************************************************************************)
(* plot_posterior_tau: the figure is a side effect outside the model; the  *)
(* call reads tau_posterior and the date at int(median).                   *)
(***************************************************************************)
plot_posterior_tau ==
    /\ ret' =
        IF IsNone(tau_posterior)
        THEN Return("plot_posterior_tau", <<>>, "ValueError", None)
        ELSE LET median_tau == NpMedian(Get(tau_posterior))
                 idx == PyInt(median_tau.num, median_tau.den * TauScale)
             IN  IF InIndexRange(idx)
                 THEN Return("plot_posterior_tau", <<>>, "", None)
                 ELSE Return("plot_posterior_tau", <<>>, "IndexError", None)
    /\ UNCHANGED <<cpVars, evVars, tsVars>>

(***************************************************************************)
(* quantify_impact                                                         *)
(***************************************************************************)
\* a - b with the second operand read in reverse draw order.
MinusCrossed(a, b) == [i \in 1..Len(a) |-> a[i] - b[Len(b) + 1 - i]]

\* a - b, elementwise.
Minus(a, b) == [i \in 1..Len(a) |-> a[i] - b[i]]

\* np.mean(s > threshold), np.mean(s < threshold): a fraction of the samples.
FractionAbove(s, threshold) ==
    [num |-> Cardinality({ i \in 1..Len(s) : s[i] > threshold }), den |-> Len(s)]
FractionBelow(s, threshold) ==
    [num |-> Cardinality({ i \in 1..Len(s) : s[i] < threshold }), den |-> Len(s)]

ImpactSummary(t) ==
    LET mean_shift == Minus(t.posterior.mu2, t.posterior.mu1)
        vol_shift  == Minus(t.posterior.sigma2, t.posterior.sigma1)
    IN  [ mean_shift_median  |-> NpMedian(mean_shift),
          mean_shift_ci      |-> <<NpQuantile(mean_shift, 1, 40),
                                   NpQuantile(mean_shift, 39, 40)>>,
          prob_mean_increase |-> FractionAbove(mean_shift, 2),
          prob_mean_decrease |-> FractionBelow(mean_shift, -2),
          vol_shift_median   |-> NpMedian(vol_shift),
          vol_shift_ci       |-> <<NpQuantile(vol_shift, 1, 40),
                                   NpQuantile(vol_shift, 39, 40)>>,
          prob_vol_increase  |-> FractionAbove(vol_shift, 1) ]

quantify_impact ==
    /\ ret' = IF IsNone(trace)
              THEN Return("quantify_impact", <<>>, "AttributeError", None)
              ELSE Return("quantify_impact", <<>>, "", Some(ImpactSummary(Get(trace))))
    /\ UNCHANGED <<cpVars, evVars, tsVars>>

(***************************************************************************)
(* The life of one SingleChangePointModel object.                          *)
(***************************************************************************)
Next ==
    \/ build_model /\ UNCHANGED results
    \/ \E cfg \in Configs : sample(cfg) /\ UNCHANGED results
    \/ diagnose_convergence /\ UNCHANGED results
    \/ \E ci \in CredibleMasses : extract_change_point_date(ci) /\ UNCHANGED results
    \/ plot_posterior_tau /\ UNCHANGED results
    \/ quantify_impact /\ UNCHANGED results

Spec == Init /\ [][Next]_vars

(***************************************************************************)
(* The same object life with a record of what each call returned since the *)
(* last call of sample().  results is a history variable: no method reads  *)
(* it.                                                                     *)
(***************************************************************************)
NextLifecycle ==
    \/ build_model /\ UNCHANGED results
    \/ \E cfg \in Configs : sample(cfg) /\ results' = {}
    \/ diagnose_convergence /\ results' = results \cup {ret'}
    \/ \E ci \in CredibleMasses :
        extract_change_point_date(ci) /\ results' = results \cup {ret'}
    \/ plot_posterior_tau /\ UNCHANGED results
    \/ quantify_impact /\ results' = results \cup {ret'}

\* One object once sample(cfg) has returned the draws d for the larger
\* configuration, whether it was called once or MaxRuns - 1 times (every call
\* returns the same draws).
LifecycleLengths == { 2 * BreakMargin - 40, 2 * BreakMargin + MaxExtra }

InitLifecycle ==
    /\ \E n \in LifecycleLengths : data = Series(n) /\ dates = Calendar(n)
    /\ \E cfg \in { c \in Configs : c.draws = MaxDraws } :
       \E d \in PosteriorDraws(BuiltModel, cfg) :
        LET run == [ key |-> [model |-> BuiltModel, config |-> cfg,
                              random_seed |-> SeedArg],
                     out |-> [raised |-> "", value |-> Some(d)] ]
        IN  /\ model = Some(BuiltModel)
            /\ trace = Some(d)
            /\ sampler_memo = {run}
            /\ run_log = [i \in 1..(MaxRuns - 1) |-> run]
            /\ ret = Return("sample", <<cfg>>, "", Some(d))
    /\ tau_posterior = None
    /\ events = <<>>
    /\ df = <<>> /\ log_returns = None
    /\ results = {}

SpecLifecycle == InitLifecycle /\ [][NextLifecycle]_vars

(***************************************************************************)
(* EventImpactAnalyzer.  A timestamp is a number of 1/TimeScale days, so   *)
(* an event or a change point may carry a time of day.                     *)
(***************************************************************************)
TimeScale == 2     \* timestamps: 1/TimeScale of a day
MaxTime   == 4     \* timestamps span 0..MaxTime
MaxEvents == 3     \* rows in the event catalogue
MaxWindow == 1     \* largest window_days

Timestamps == 0..MaxTime
WindowDays == (-1)..MaxWindow

\* Change-point dates: a midnight and a time of day in the middle of the span.
ChangePoints ==
    { t \in Timestamps : t - MaxTime \div 2 \in {0, 1} }

\* Catalogue rows: the description tells rows of the same date apart.
Catalogues ==
    UNION { [1..k -> Timestamps] : k \in 0..MaxEvents }

EventRows(ts) ==
    [i \in 1..Len(ts) |-> [date |-> ts[i], event_type |-> "conflict", description |-> i]]

\* timedelta(days=window_days)
Timedelta(days) == days * TimeScale

\* (date - change_point_date).dt.days: whole days, rounded toward minus infinity.
DtDays(delta) == delta \div TimeScale

\* The row filter of lines 26-29.
InWindowStrict(date, window_start, window_end) ==
    (date > window_start) /\ (date < window_end)

InWindowEither(date, window_start, window_end) ==
    (date >= window_start) \/ (date <= window_end)

InWindow(date, window_start, window_end) ==
    (date >= window_start) /\ (date <= window_end)

\* 1 - days/window_days as pandas computes it: 0/0 is NaN, x/0 is infinite.
ProximityScore(days_from_cp, window_days) ==
    IF window_days # 0
    THEN [kind |-> "finite", num |-> window_days - days_from_cp, den |-> window_days]
    ELSE IF days_from_cp = 0
         THEN [kind |-> "nan", num |-> 0, den |-> 1]
         ELSE [kind |-> "-inf", num |-> 0, den |-> 1]

\* a < b for two scores; a NaN compares false with everything.
ScoreLess(a, b) ==
    CASE a.kind = "nan" \/ b.kind = "nan" -> FALSE
      [] a.kind = "-inf" -> b.kind = "finite"
      [] b.kind = "-inf" -> FALSE
      [] OTHER ->
            \* cross-multiplied, with the sign of the two denominators
            IF a.den * b.den > 0 THEN a.num * b.den < b.num * a.den
            ELSE a.num * b.den > b.num * a.den

Orderings(k) ==
    { f \in [1..k -> 1..k] : \A i, j \in 1..k : f[i] = f[j] => i = j }

\* sort_values('proximity_score', ascending=False): descending, NaN last;
\* the order among equal scores is whatever the sort leaves.
Descending(rows) ==
    \A i, j \in 1..Len(rows) :
        i < j => /\ ~ScoreLess(rows[i].proximity_score, rows[j].proximity_score)
                 /\ rows[i].proximity_score.kind = "nan"
                        => rows[j].proximity_score.kind = "nan"

SortValues(rows) ==
    { [i \in 1..Len(rows) |-> rows[f[i]]] : f \in Orderings(Len(rows)) }

associate_change_points(change_point_date, window_days) ==
    LET window_start == change_point_date - Timedelta(window_days)
        window_end   == change_point_date + Timedelta(window_days)
        matches == SelectSeq(events,
                       LAMBDA e : InWindow(e.date, window_start, window_end))
        scored ==
            [ i \in 1..Len(matches) |->
                LET days_from_cp == Abs(DtDays(matches[i].date - change_point_date))
                IN  [ date            |-> matches[i].date,
                      event_type      |-> matches[i].event_type,
                      description     |-> matches[i].description,
                      days_from_cp    |-> days_from_cp,
                      proximity_score |-> ProximityScore(days_from_cp, window_days) ] ]
    IN  /\ IF Len(matches) = 0
           THEN ret' = Return("associate_change_points",
                              <<change_point_date, window_days>>, "", Some(<<>>))
           ELSE \E sorted \in SortValues(scored) :
                    /\ Descending(sorted)
                    /\ ret' = Return("associate_change_points",
                                     <<change_point_date, window_days>>, "",
                                     Some(sorted))
        /\ UNCHANGED <<cpVars, evVars, tsVars>>

InitAssociate ==
    /\ data = <<>> /\ dates = <<>>
    /\ model = None /\ trace = None /\ tau_posterior = None
    /\ sampler_memo = {} /\ run_log = <<>>
    /\ \E ts \in Catalogues : events = EventRows(ts)
    /\ df = <<>> /\ log_returns = None
    /\ ret = NoCall
    /\ results = {}

NextAssociate ==
    \E cp \in ChangePoints, w \in WindowDays :
        associate_change_points(cp, w) /\ UNCHANGED results

SpecAssociate == InitAssociate /\ [][NextAssociate]_vars

(***************************************************************************)
(* EventImpactAnalyzer.quantify_event_impact.  The returned sentence is    *)
(* modelled by its parts.  (exp(x) - 1) * 100 is kept as its argument x:   *)
(* the percentage has the sign of x.  price_level_before and               *)
(* price_level_after are not read by the code.                             *)
(***************************************************************************)
MaxSamples == 3    \* pooled draws in a posterior given to quantify_impact
MaxShift   == 3    \* |mu2 - mu1| in units of 0.005

\* p > 0.9 for the fraction p.
ExceedsNineTenthsOrEqual(p) == 10 * p.num >= 9 * p.den

ExceedsNineTenths(p) == 10 * p.num > 9 * p.den

Direction(impact_results) ==
    IF ExceedsNineTenths(impact_results.prob_mean_increase) THEN "increase"
    ELSE IF ExceedsNineTenths(impact_results.prob_mean_decrease) THEN "decrease"
    ELSE "shift"

quantify_event_impact(event, impact_results) ==
    LET mean_shift == impact_results.mean_shift_median
        direction  == Direction(impact_results)
        vol_shift  == impact_results.vol_shift_median
    IN  /\ ret' = Return("quantify_event_impact", <<event, impact_results>>, "",
                    Some([ event_type    |-> event.event_type,
                           description   |-> event.description,
                           date          |-> event.date \div TimeScale,
                           direction     |-> direction,
                           magnitude     |-> [ plus   |-> direction = "increase",
                                               exp_of |-> mean_shift ],
                           probability   |-> impact_results.prob_mean_increase,
                           volatility    |-> IF vol_shift.num > 0 THEN "increased"
                                             ELSE "decreased",
                           vol_magnitude |-> [ exp_of |-> vol_shift ] ]))
        /\ UNCHANGED <<cpVars, evVars, tsVars>>

\* Posteriors of n pooled draws whose mean shifts mu2 - mu1 are the given ones.
ShiftSamples ==
    UNION { [1..n -> (-MaxShift)..MaxShift] : n \in 1..MaxSamples }

ShiftedDraws(shifts) ==
    LET n == Len(shifts)
    IN  [ posterior |->
            [ tau    |-> Pattern(n, TauScale * BreakMargin, TauScale * BreakMargin),
              mu1    |-> Pattern(n, 0, 0),
              mu2    |-> shifts,
              sigma1 |-> Pattern(n, 2, 2),
              sigma2 |-> Pattern(n, 3, 2) ],
          summary |-> BaseSummary ]

\* Summaries written by hand rather than computed by quantify_impact.
HandSummaries ==
    { [ mean_shift_median  |-> [num |-> m, den |-> 2],
        mean_shift_ci      |-> <<[num |-> -40, den |-> 40], [num |-> 40, den |-> 40]>>,
        prob_mean_increase |-> [num |-> pd[1], den |-> 20],
        prob_mean_decrease |-> [num |-> pd[2], den |-> 20],
        vol_shift_median   |-> [num |-> 1, den |-> 2],
        vol_shift_ci       |-> <<[num |-> 0, den |-> 40], [num |-> 40, den |-> 40]>>,
        prob_vol_increase  |-> [num |-> 10, den |-> 20] ] :
        m \in {-1, 0, 1},
        pd \in { <<0, 0>>, <<18, 0>>, <<19, 0>>, <<0, 18>>, <<0, 19>> } }

\* One object after sample() returned the draws d for a one-chain run.
InitNarrative ==
    /\ data = Series(2 * BreakMargin)
    /\ dates = Calendar(2 * BreakMargin)
    /\ \E shifts \in ShiftSamples :
        LET d   == ShiftedDraws(shifts)
            m   == [ n_obs |-> 2 * BreakMargin, lower |-> BreakMargin,
                     upper |-> BreakMargin, observed |-> Series(2 * BreakMargin) ]
            cfg == [ draws |-> Len(shifts), tune |-> Len(shifts), chains |-> 1,
                     target_accept |-> 85 ]
            run == [ key |-> [model |-> m, config |-> cfg, random_seed |-> RandomSeed],
                     out |-> [raised |-> "", value |-> Some(d)] ]
        IN  /\ model = Some(m)
            /\ trace = Some(d)
            /\ sampler_memo = {run}
            /\ run_log = <<run>>
    /\ tau_posterior = None
    /\ events = EventRows(<<MaxTime \div 2>>)
    /\ df = <<>> /\ log_returns = None
    /\ ret = NoCall
    /\ results = {}

NextNarrative ==
    \/ quantify_impact /\ UNCHANGED results
    \/ quantify_event_impact(events[1], ImpactSummary(Get(trace))) /\ UNCHANGED results
    \/ \E impact_results \in HandSummaries :
        quantify_event_impact(events[1], impact_results) /\ UNCHANGED results

SpecNarrative == InitNarrative /\ [][NextNarrative]_vars

(***************************************************************************)
(* TimeSeriesAnalyzer.compute_log_returns.  A float result is a record     *)
(* [kind, num, den]: kind "finite" stands for ln(num/den), and "nan",      *)
(* "inf", "-inf" for the IEEE values numpy produces without raising.       *)
(***************************************************************************)
MaxLen   == 3      \* rows in the price table
MaxPrice == 2      \* prices range over -1..MaxPrice

PriceTables ==
    UNION { [1..n -> (-1)..MaxPrice] : n \in 0..MaxLen }

PriceRows(ps) == [i \in 1..Len(ps) |-> [Date |-> Calendar(Len(ps))[i], Price |-> ps[i]]]

\* np.log(a / b) for the prices a, b.
LogRatio(a, b) ==
    IF b = 0
    THEN IF a > 0 THEN [kind |-> "inf", num |-> a, den |-> b]      \* log(inf)
         ELSE [kind |-> "nan", num |-> a, den |-> b]               \* log(nan), log(-inf)
    ELSE IF a = 0 THEN [kind |-> "-inf", num |-> a, den |-> b]     \* log(0)
    ELSE IF (a > 0) = (b > 0) THEN [kind |-> "finite", num |-> a, den |-> b]
    ELSE [kind |-> "nan", num |-> a, den |-> b]                    \* log(negative)

\* np.log(Price / Price.shift(1)): position 1 has no predecessor and is NaN.
LogOfShifted(prices) ==
    [ i \in 1..Len(prices) |->
        IF i = 1 THEN [kind |-> "nan", num |-> prices[1].Price, den |-> 0]
        ELSE LogRatio(prices[i].Price, prices[i - 1].Price) ]

\* .dropna(): NaN entries go, infinities stay.
DropNa(values) == SelectSeq(values, LAMBDA v : v.kind # "nan")

compute_log_returns ==
    LET kept  == DropNa(LogOfShifted(df))
        index == [i \in 1..(IF Len(df) = 0 THEN 0 ELSE Len(df) - 1) |-> df[i + 1].Date]
    IN  /\ IF Len(kept) = Len(index)
           THEN LET series == [i \in 1..Len(kept) |->
                                 [Date |-> index[i], value |-> kept[i]]]
                IN  /\ log_returns' = Some(series)
                    /\ ret' = Return("compute_log_returns", <<>>, "", Some(series))
           ELSE \* log_returns.index = ... : "Length mismatch"
                /\ log_returns' = log_returns
                /\ ret' = Return("compute_log_returns", <<>>, "ValueError", None)
        /\ UNCHANGED <<cpVars, evVars, df>>

InitReturns ==
    /\ data = <<>> /\ dates = <<>>
    /\ model = None /\ trace = None /\ tau_posterior = None
    /\ sampler_memo = {} /\ run_log = <<>>
    /\ events = <<>>
    /\ \E ps \in PriceTables : df = PriceRows(ps)
    /\ log_returns = None
    /\ ret = NoCall
    /\ results = {}

NextReturns == compute_log_returns /\ UNCHANGED results

SpecReturns == InitReturns /\ [][NextReturns]_vars

(***************************************************************************)
(* quantify_impact on posteriors whose regime parameters vary from draw to *)
(* draw.  mu is in units of 0.005 as above; sigma is a half-Normal draw,   *)
(* hence positive.  Either the means or the scales vary, the other pair    *)
(* keeps its base values.                                                  *)
(***************************************************************************)
MuValues == {-2, 0, 3}
SigmaValues == {1, 2, 3}

RegimeDraws(mu1, mu2, sigma1, sigma2) ==
    LET n == Len(mu1)
    IN  [ posterior |->
            [ tau    |-> Pattern(n, TauScale * BreakMargin, TauScale * BreakMargin),
              mu1    |-> mu1,
              mu2    |-> mu2,
              sigma1 |-> sigma1,
              sigma2 |-> sigma2 ],
          summary |-> BaseSummary ]

\* The parameters that vary from draw to draw, and the values they take.
Varied == { [params |-> "mu", values |-> MuValues],
            [params |-> "sigma", values |-> SigmaValues] }

\* The posterior whose varied parameters have the draws a (pre) and b (post).
RegimePosterior(v, a, b) ==
    LET n == Len(a)
    IN  IF v.params = "mu"
        THEN RegimeDraws(a, b, Pattern(n, 2, 2), Pattern(n, 2, 2))
        ELSE RegimeDraws(Pattern(n, 0, 0), Pattern(n, 4, 4), a, b)

\* One object after sample() returned the draws d for a one-chain run.
InitImpact ==
    /\ data = Series(2 * BreakMargin)
    /\ dates = Calendar(2 * BreakMargin)
    /\ \E n \in 1..MaxSamples, v \in Varied :
       \E a \in [1..n -> v.values], b \in [1..n -> v.values] :
        LET d   == RegimePosterior(v, a, b)
            m   == [ n_obs |-> 2 * BreakMargin, lower |-> BreakMargin,
                     upper |-> BreakMargin, observed |-> Series(2 * BreakMargin) ]
            cfg == [ draws |-> n, tune |-> n, chains |-> 1, target_accept |-> 85 ]
            run == [ key |-> [model |-> m, config |-> cfg, random_seed |-> RandomSeed],
                     out |-> [raised |-> "", value |-> Some(d)] ]
        IN  /\ model = Some(m)
            /\ trace = Some(d)
            /\ sampler_memo = {run}
            /\ run_log = <<run>>
    /\ tau_posterior = None
    /\ events = <<>>
    /\ df = <<>> /\ log_returns = None
    /\ ret = NoCall
    /\ results = {}

NextImpact == quantify_impact /\ UNCHANGED results

SpecImpact == InitImpact /\ [][NextImpact]_vars

(***************************************************************************)
(* Claims about SingleChangePointModel, checked under Spec.                *)
(***************************************************************************)
Extracted == ret.op = "extract_change_point_date" /\ ret.raised = ""
LongEnough == Len(data) >= 2 * BreakMargin

\* C1: whenever extract_change_point_date returns, for a credible mass in
\* (0,1), the date at index round(median(tau)) lies between the dates at the
\* truncated lower and upper quantile indices:
\* credibleIntervalStart <= calendarDate <= credibleIntervalEnd.
\* (Stated for series of at least 2 x BreakMargin observations, where every
\* index is inside the date axis.)
C1_EstimateInsideInterval ==
    (Extracted /\ LongEnough) =>
        LET r == Get(ret.value)
        IN  /\ r.credible_interval[1] <= r.mode_date
            /\ r.mode_date <= r.credible_interval[2]

\* C2: a series shorter than 2 x BreakMargin never reaches the sampler: no
\* call of pm.sample is ever made for it, and sample() ends in
\* InsufficientDataError.
C2_ShortSeriesNeverSampled ==
    ~LongEnough =>
        /\ run_log = <<>>
        /\ ret.op = "sample" => ret.raised = "InsufficientDataError"

\* C7: diagnose_convergence on posterior draws returns a report and does not
\* raise; converged is true exactly when every r_hat of the five parameters
\* is below 1.05 and every bulk effective sample size is above 200 (that is,
\* max r_hat < 1.05 and min ess > 200); a report with converged = false
\* leaves quantify_impact and extract_change_point_date able to return.
C7_ConvergenceReportedAsData ==
    (ret.op = "diagnose_convergence" /\ ~IsNone(trace)) =>
        /\ ret.raised = ""
        /\ LET rep == Get(ret.value)
               s   == Get(trace).summary
           IN  /\ rep.converged <=>
                    /\ \A p \in Params : s.r_hat[p] < RHatThreshold
                    /\ \A p \in Params : s.ess_bulk[p] > EssThreshold
               /\ \E p \in Params : rep.r_hat_max = s.r_hat[p]
               /\ \A p \in Params : s.r_hat[p] <= rep.r_hat_max
               /\ \E p \in Params : rep.ess_min = s.ess_bulk[p]
               /\ \A p \in Params : rep.ess_min <= s.ess_bulk[p]
        /\ ENABLED (quantify_impact /\ ret'.raised = "")
        /\ LongEnough =>
             ENABLED (\E ci \in CredibleMasses :
                        extract_change_point_date(ci) /\ ret'.raised = "")

\* C7 witness: a report at the r_hat boundary (max r_hat = 1.05) that says
\* converged = false.
C7_Witness ==
    /\ ret.op = "diagnose_convergence"
    /\ ret.raised = ""
    /\ LongEnough
    /\ Get(ret.value).r_hat_max = RHatThreshold
    /\ Get(ret.value).ess_min > EssThreshold
    /\ ~Get(ret.value).converged

\* The index nearest to i inside [0, len(dates) - 1].
Clamp(i) == Max2(0, Min2(i, Len(dates) - 1))

\* C9: extract_change_point_date on posterior draws never fails, and each
\* date it returns is the date at the computed index clamped to
\* [0, len(dates) - 1].
C9_IndicesClamped ==
    (ret.op = "extract_change_point_date" /\ ~IsNone(trace)) =>
        /\ ret.raised = ""
        /\ LET r   == Get(ret.value)
               tau == Get(trace).posterior.tau
               ci  == ret.args[1]
           IN  /\ r.mode_date = dates[Clamp(TauMode(tau)) + 1]
               /\ r.credible_interval[1] = dates[Clamp(LowerIdx(tau, ci)) + 1]
               /\ r.credible_interval[2] = dates[Clamp(UpperIdx(tau, ci)) + 1]

\* C10: any two calls of pm.sample made by one object with the same
\* configuration were given the same model, series and seed (always 42) and
\* produced the same outcome, so the same posterior draws.
C10_SameConfigSameDraws ==
    /\ \A i \in 1..Len(run_log) :
        /\ run_log[i].key.random_seed = RandomSeed
        /\ run_log[i].key.model.observed = data
    /\ \A i, j \in 1..Len(run_log) :
        run_log[i].key.config = run_log[j].key.config
            => run_log[i].out = run_log[j].out

\* C10 witness: two runs with the same configuration that both returned draws.
C10_Witness ==
    /\ Len(run_log) >= 2
    /\ run_log[1].key.config = run_log[2].key.config
    /\ run_log[1].out.raised = ""
    /\ trace = run_log[2].out.value

(***************************************************************************)
(* Claims about EventImpactAnalyzer.associate_change_points, checked under *)
(* SpecAssociate.                                                          *)
(***************************************************************************)
Associated == ret.op = "associate_change_points"
Matches == Get(ret.value)

\* The catalogue rows whose date lies in
\* [change_point_date - window_days, change_point_date + window_days].
RowsInWindow(cp, w) ==
    { i \in 1..Len(events) : Abs(events[i].date - cp) <= w * TimeScale }

\* C3: every match returned by associate_change_points has
\* 0 <= days_from_cp <= window_days and proximity_score =
\* 1 - days_from_cp/window_days, a number in [0,1] that is 1 at zero distance,
\* 0 at the window edge and non-increasing in days_from_cp.
C3_ProximityScoreLinear ==
    Associated =>
        LET w == ret.args[2]
        IN  /\ \A i \in 1..Len(Matches) :
                LET m == Matches[i]
                    p == m.proximity_score
                IN  /\ 0 <= m.days_from_cp /\ m.days_from_cp <= w
                    /\ p.kind = "finite"
                    /\ p.num * w = (w - m.days_from_cp) * p.den
                    /\ 0 <= p.num /\ p.num <= p.den
                    /\ m.days_from_cp = 0 => p.num = p.den
                    /\ m.days_from_cp = w => p.num = 0
            /\ \A i, j \in 1..Len(Matches) :
                Matches[i].days_from_cp <= Matches[j].days_from_cp
                    => ~ScoreLess(Matches[i].proximity_score,
                                  Matches[j].proximity_score)

\* C4: associate_change_points returns exactly the catalogue rows whose date
\* lies in [change_point_date - window_days, change_point_date + window_days],
\* each once and unaltered, ordered by descending proximity_score, so that no
\* match is farther in days from the change point than the match after it.
C4_ExactlyWindowSortedByProximity ==
    Associated =>
        LET cp == ret.args[1]
            w  == ret.args[2]
        IN  /\ ret.raised = ""
            /\ { m.description : m \in { Matches[i] : i \in 1..Len(Matches) } }
                   = RowsInWindow(cp, w)
            /\ Len(Matches) = Cardinality(RowsInWindow(cp, w))
            /\ \A i \in 1..Len(Matches) :
                /\ Matches[i].date = events[Matches[i].description].date
                /\ Matches[i].event_type = events[Matches[i].description].event_type
            /\ \A i, j \in 1..Len(Matches) :
                i < j => /\ Matches[i].days_from_cp <= Matches[j].days_from_cp
                         /\ ~ScoreLess(Matches[i].proximity_score,
                                       Matches[j].proximity_score)

\* C4 witness: two matches at different distances, the second on the window
\* edge, and a catalogue row left out.
C4_Witness ==
    /\ Associated
    /\ Len(Matches) = 2
    /\ Len(events) > 2
    /\ ret.args[2] > 0
    /\ Matches[1].days_from_cp < Matches[2].days_from_cp
    /\ Abs(Matches[2].date - ret.args[1]) = ret.args[2] * TimeScale

\* C5: on an empty catalogue, and on a catalogue with no row in the window,
\* associate_change_points returns the empty list and raises nothing, for
\* every change-point date and window size.
C5_NoEventsGivesEmptyList ==
    (Associated /\ RowsInWindow(ret.args[1], ret.args[2]) = {}) =>
        /\ ret.raised = ""
        /\ ret.value = Some(<<>>)

\* C5 witness: the call was made on an empty catalogue.
C5_Witness ==
    /\ Associated
    /\ events = <<>>
    /\ ret.args[2] > 0
    /\ ret.value = Some(<<>>)

\* C5 second witness: a catalogue with rows, none of them in the window.
C5_WitnessNoneInWindow ==
    /\ Associated
    /\ Len(events) > 0
    /\ ret.args[2] > 0
    /\ ret.value = Some(<<>>)

(***************************************************************************)
(* Claims about quantify_event_impact, checked under SpecNarrative.        *)
(***************************************************************************)
Narrated == ret.op = "quantify_event_impact" /\ ret.raised = ""
IsZero(x) == x.num = 0

\* C6 as claimed: for every impact summary whose mean_shift_median is 0,
\* whatever its other fields, the narrative's directional word is "shift".
C6_ZeroMedianAlwaysNeutral ==
    (Narrated /\ IsZero(ret.args[2].mean_shift_median)) =>
        Get(ret.value).direction = "shift"

\* C6 as amended: for every impact summary whose mean_shift_median is 0 and
\* whose prob_mean_increase and prob_mean_decrease are both at most 0.9 the
\* directional word is "shift"; every summary quantify_impact computes from
\* posterior draws with a zero median shift is such a summary.
C6_ZeroMedianNeutralUnlessProbable ==
    (Narrated /\ IsZero(ret.args[2].mean_shift_median)) =>
        LET impact == ret.args[2]
        IN  /\ ( /\ 10 * impact.prob_mean_increase.num <= 9 * impact.prob_mean_increase.den
                 /\ 10 * impact.prob_mean_decrease.num <= 9 * impact.prob_mean_decrease.den )
                    => Get(ret.value).direction = "shift"
            /\ impact = ImpactSummary(Get(trace))
                    => Get(ret.value).direction = "shift"

\* C6 witness: a summary computed from draws that do shift (half of them above
\* the 0.01 floor) but have a zero median, narrated as "shift".
C6_Witness ==
    /\ Narrated
    /\ ret.args[2] = ImpactSummary(Get(trace))
    /\ IsZero(ret.args[2].mean_shift_median)
    /\ ret.args[2].prob_mean_increase.num > 0
    /\ Get(ret.value).direction = "shift"

(***************************************************************************)
(* Claims about compute_log_returns, checked under SpecReturns.            *)
(***************************************************************************)
\* Some consecutive pair has a ratio price[i]/price[i-1] that is not positive.
HasNonPositiveRatio ==
    \E i \in 2..Len(df) :
        ~(  (df[i].Price > 0 /\ df[i - 1].Price > 0)
         \/ (df[i].Price < 0 /\ df[i - 1].Price < 0) )

\* C8: when some consecutive pair has a non-positive price ratio,
\* compute_log_returns fails with InvalidInputError and returns no series;
\* on positive prices (at least one row) it returns input length - 1 values,
\* value k being ln(price[k+1]/price[k]) dated at the later row k+1.
C8_NonPositiveRatioRejected ==
    ret.op = "compute_log_returns" =>
        IF HasNonPositiveRatio
        THEN ret.raised = "InvalidInputError" /\ ret.value = None
        ELSE (Len(df) >= 1 /\ \A i \in 1..Len(df) : df[i].Price > 0) =>
                /\ ret.raised = ""
                /\ Len(Get(ret.value)) = Len(df) - 1
                /\ \A k \in 1..(Len(df) - 1) :
                    /\ Get(ret.value)[k].Date = df[k + 1].Date
                    /\ Get(ret.value)[k].value =
                         [kind |-> "finite", num |-> df[k + 1].Price,
                          den |-> df[k].Price]

(***************************************************************************)
(* Claims about quantify_impact, checked under SpecImpact.                 *)
(***************************************************************************)
Quantified == ret.op = "quantify_impact" /\ ret.raised = ""

\* a <= b for the fractions a and b (denominators are positive).
FracLeq(a, b) == a.num * b.den <= b.num * a.den

IsProbability(p) == 0 <= p.num /\ p.num <= p.den /\ p.den > 0

\* Draw indices of the stored posterior.
DrawIndices == 1..Len(Get(trace).posterior.mu1)

\* The shifts of draw i, from the parameters of that same draw.
MeanShiftOf(i) == Get(trace).posterior.mu2[i] - Get(trace).posterior.mu1[i]
VolShiftOf(i) == Get(trace).posterior.sigma2[i] - Get(trace).posterior.sigma1[i]

\* C11: on non-empty posterior draws quantify_impact returns a summary in
\* which prob_mean_increase is the fraction of draws i with
\* mu2[i] - mu1[i] > 0.01 and prob_mean_decrease the fraction with
\* mu2[i] - mu1[i] < -0.01, every probability lies in [0,1],
\* prob_mean_increase + prob_mean_decrease <= 1, both credible intervals
\* satisfy lo <= median <= hi, and every shift pairs the values of one draw
\* index (the medians are those of the per-index differences).
C11_ImpactSummaryFromPairedDraws ==
    Quantified =>
        LET s == Get(ret.value)
            n == Cardinality(DrawIndices)
        IN  /\ n > 0
            /\ s.prob_mean_increase.den = n
            /\ s.prob_mean_increase.num =
                    Cardinality({ i \in DrawIndices : MeanShiftOf(i) > 2 })
            /\ s.prob_mean_decrease.den = n
            /\ s.prob_mean_decrease.num =
                    Cardinality({ i \in DrawIndices : MeanShiftOf(i) < -2 })
            /\ s.prob_vol_increase.den = n
            /\ s.prob_vol_increase.num =
                    Cardinality({ i \in DrawIndices : VolShiftOf(i) > 1 })
            /\ IsProbability(s.prob_mean_increase)
            /\ IsProbability(s.prob_mean_decrease)
            /\ IsProbability(s.prob_vol_increase)
            /\ s.prob_mean_increase.num + s.prob_mean_decrease.num <= n
            /\ FracLeq(s.mean_shift_ci[1], s.mean_shift_median)
            /\ FracLeq(s.mean_shift_median, s.mean_shift_ci[2])
            /\ FracLeq(s.vol_shift_ci[1], s.vol_shift_median)
            /\ FracLeq(s.vol_shift_median, s.vol_shift_ci[2])
            /\ s.mean_shift_median = NpMedian([i \in DrawIndices |-> MeanShiftOf(i)])
            /\ s.vol_shift_median = NpMedian([i \in DrawIndices |-> VolShiftOf(i)])

\* quantify_impact has returned for draws whose mu1 and mu2 both vary, with
\* an increase, a decrease and a shift of exactly 0.01 among them, and a
\* credible interval that is not a single point.
C11_Witness ==
    /\ Quantified
    /\ \E i, j \in DrawIndices :
            /\ Get(trace).posterior.mu1[i] # Get(trace).posterior.mu1[j]
            /\ Get(trace).posterior.mu2[i] # Get(trace).posterior.mu2[j]
    /\ \E i \in DrawIndices : MeanShiftOf(i) = 2
    /\ Get(ret.value).prob_mean_increase.num > 0
    /\ Get(ret.value).prob_mean_decrease.num > 0
    /\ ~FracLeq(Get(ret.value).mean_shift_ci[2], Get(ret.value).mean_shift_ci[1])

(***************************************************************************)
(* Claims about the calls between two sample() calls, checked under        *)
(* SpecLifecycle.                                                          *)
(***************************************************************************)
\* No call made since the last sample() has returned two different results.
SameResultEveryTime ==
    \A r1, r2 \in results :
        (r1.op = r2.op /\ r1.args = r2.args) => r1 = r2

\* One call: a call other than sample leaves the draws as they were, and no
\* call changes the series or the dates; the draws change only by a
\* sample() that returned, and become what it returned; the verdict of
\* diagnose_convergence is that of the draws stored at the time of the call.
DrawsFrame ==
    /\ ret'.op # "sample" => trace' = trace
    /\ data' = data /\ dates' = dates
    /\ trace' # trace =>
            (ret'.op = "sample" /\ ret'.raised = "" /\ trace' = ret'.value)
    /\ (ret'.op = "diagnose_convergence" /\ ~IsNone(trace')) =>
            /\ ret'.raised = ""
            /\ Get(ret'.value).converged <=>
                    /\ \A p \in Params : Get(trace').summary.r_hat[p] < RHatThreshold
                    /\ \A p \in Params : Get(trace').summary.ess_bulk[p] > EssThreshold

\* C12: once sample has returned, calls of diagnose_convergence,
\* extract_change_point_date, plot_posterior_tau and quantify_impact, in any
\* order and number, leave the stored draws, the series and the dates
\* unchanged, and diagnose, extract and quantify return the same result each
\* time they are called (with the same argument) until the next sample; only
\* sample replaces the draws, and the convergence verdict is computed from
\* the current draws on each call.
C12_DrawsFixedBetweenSamples ==
    [](~IsNone(trace) => SameResultEveryTime) /\ [][DrawsFrame]_vars

\* A later sample() has replaced the draws by ones with the opposite
\* convergence verdict; since then diagnose,
\* quantify and extract (at both credible masses) have been called, the last
\* call being a diagnose_convergence made after all of them.
C12_Witness ==
    /\ Len(run_log) = MaxRuns
    /\ run_log[MaxRuns].out.raised = ""
    /\ trace = run_log[MaxRuns].out.value
    /\ trace # run_log[1].out.value
    /\ ~IsNone(tau_posterior)
    /\ { r.op : r \in results } =
            {"diagnose_convergence", "extract_change_point_date", "quantify_impact"}
    /\ Cardinality(results) = 2 + Cardinality(CredibleMasses)
    /\ ret.op = "diagnose_convergence"
    /\ Get(ret.value).converged #
            ConvergenceReport(Get(run_log[1].out.value)).converged

====
